---- MODULE Spec2Model ----
(***************************************************************************)
(* QuantShield: the rolling-window panel builder (DatasetBuilder), the     *)
(* label rule, the forward-chaining split of RiskClassifier, the weight    *)
(* validation of PortfolioBuilder and the serving path predict_risk.       *)
(*                                                                         *)
(* Numbers.  Dates are trading-day ordinals (integers).  Risk metrics are  *)
(* fixed-point numbers in units of 1/1000 (0.12 is 120).  Weights are      *)
(* fixed-point numbers in units of 1e-9 (1.0 is 1000000000).               *)
(***************************************************************************)
EXTENDS Integers, Sequences, FiniteSets, TLC

VARIABLES
    portfolios,   \* DatasetBuilder.portfolios: the dict, in insertion order
    pc,           \* position of the pipeline
    pidx,         \* build_panel_dataset: index of the portfolio the loop is at
    rows,         \* build_panel_dataset: the local list `rows`
    panel_df,     \* the table build_panel_dataset returned
    df_sorted,    \* train_and_evaluate: the sorted table
    folds,        \* train_and_evaluate: the (train_index, test_index) pairs
    is_trained,   \* RiskClassifier.is_trained
    metrics,      \* _assign_risk_label: the arguments (vol, var95, max_dd)
    label,        \* _assign_risk_label: the value returned
    available_tickers, \* PortfolioBuilder.available_tickers
    n_returns,    \* PortfolioBuilder.daily_returns: its number of rows
    weights,      \* the weight map given to build_portfolio
    result,       \* what build_portfolio did: raised, or the table returned
    sklearn_model, \* main.sklearn_model: whether the model was loaded
    request,      \* predict_risk: request.holdings
    response,     \* predict_risk: the response or the HTTPException
    port_defs,    \* train_model.main: the portfolio definitions looped over
    midx,         \* train_model.main: index of the definition the loop is at
    main_log,     \* train_model.main: what happened to each definition
    price_data,   \* PortfolioBuilder.price_data
    builder_returns, \* PortfolioBuilder.daily_returns
    portfolio_df, \* the table build_portfolio returned
    rejected,     \* whether a build_portfolio call has raised
    portfolio_returns, \* RiskFeatureEngineer.portfolio_returns
    component_returns, \* RiskFeatureEngineer.component_returns
    feature       \* the value a compute_* method returned

panelVars == <<portfolios, pidx, rows, panel_df, df_sorted, folds, is_trained>>
labelVars == <<metrics, label>>
builderVars == <<available_tickers, n_returns, weights, result>>
serveVars == <<sklearn_model, request, response>>
mainVars == <<port_defs, midx, main_log>>
tableVars == <<price_data, builder_returns, portfolio_df, rejected>>
engineerVars == <<portfolio_returns, component_returns, feature>>
moreVars == <<mainVars, tableVars, engineerVars>>
vars == <<pc, panelVars, labelVars, builderVars, serveVars, moreVars>>

\* the values of the variables a specification does not use
IdlePanel ==
    /\ portfolios = <<>>
    /\ pidx = 1
    /\ rows = <<>>
    /\ panel_df = <<>>
    /\ df_sorted = <<>>
    /\ folds = <<>>
    /\ is_trained = FALSE

IdleLabel == metrics = <<>> /\ label = "none"

\* build_portfolio has not been called
NoResult == [called |-> FALSE, raised |-> FALSE, error |-> "", n_rows |-> 0]

IdleBuilder ==
    /\ available_tickers = <<>>
    /\ n_returns = 0
    /\ weights = <<>>
    /\ result = NoResult

\* predict_risk has not answered
NoResponse == [status |-> 0, detail |-> "", risk_class |-> "none"]

IdleServe ==
    /\ sklearn_model = FALSE
    /\ request = <<>>
    /\ response = NoResponse

IdleMain == port_defs = <<>> /\ midx = 1 /\ main_log = <<>>

IdleTables ==
    /\ price_data = <<>>
    /\ builder_returns = <<>>
    /\ portfolio_df = <<>>
    /\ rejected = FALSE

IdleEngineer ==
    /\ portfolio_returns = <<>>
    /\ component_returns = <<>>
    /\ feature = <<>>

IdleMore == IdleMain /\ IdleTables /\ IdleEngineer

----------------------------------------------------------------------------
(* Program constants *)

WINDOW_LENGTH == 126
STEP_SIZE == 21
N_SPLITS == 5
TRADING_DAYS_PER_YEAR == 252

\* thresholds of _assign_risk_label, in 1/1000
LOW_VOL == 120
LOW_DD == 150
HIGH_VOL == 200
HIGH_DD == 250
HIGH_VAR == 30
\* features.get("Diversification_Ratio", 1.0), in 1/1000
DIV_DEFAULT == 1000
DIV_ZERO_RISK == 1000

\* weights are fixed-point numbers in units of 1e-9: the literal 1.0
ONE == 1000000000
\* np.isclose(total_weight, 1.0, rtol=1e-5): rtol is 1 / RTOL_INV, and atol
\* keeps numpy's default of 1e-8
RTOL_INV == 100000
ISCLOSE_ATOL == 10

\* predict_risk: 0.95 <= total_weight <= 1.05, in units of 1e-9
SOFT_LOW == 950000000
SOFT_HIGH == 1050000000
\* predict_risk: the returns required, and the slice daily_returns.iloc[-126:]
INFERENCE_DAYS == 126

----------------------------------------------------------------------------
(* Bounds of the model *)

\* longest portfolio table (rows of portfolio_df) of a single-portfolio build
MaxDays == 300
\* largest metric value of the label grid, in 1/1000
MaxMetric == 260

\* the number of times compute_all_features is called on one engineer
MaxCalls == 3

----------------------------------------------------------------------------
(* Python helpers *)

\* list(range(start, stop, step)) for step > 0
RECURSIVE Range(_, _, _)
Range(start, stop, step) ==
    IF start >= stop THEN <<>>
    ELSE <<start>> \o Range(start + step, stop, step)

\* a[lo:hi] on a 0-based Python sequence held as a 1-based TLA+ sequence
Slice(s, lo, hi) == SubSeq(s, lo + 1, IF hi > Len(s) THEN Len(s) ELSE hi)

----------------------------------------------------------------------------
(* The label rule *)

\* DatasetBuilder._assign_risk_label
MutLabelHighFirst(vol, var95, max_dd) ==
    IF vol > HIGH_VOL \/ max_dd > HIGH_DD \/ var95 > HIGH_VAR THEN "High"
    ELSE IF vol < LOW_VOL /\ max_dd < LOW_DD THEN "Low"
    ELSE "Medium"

MutLabelVolOnly(vol, var95, max_dd) ==
    IF vol < LOW_VOL /\ max_dd < LOW_DD THEN "Low"
    ELSE IF vol > HIGH_VOL \/ max_dd > HIGH_DD THEN "High"
    ELSE "Medium"

_assign_risk_label(vol, var95, max_dd) ==
    IF vol < LOW_VOL /\ max_dd < LOW_DD THEN "Low"
    ELSE IF vol > HIGH_VOL \/ max_dd > HIGH_DD \/ var95 > HIGH_VAR THEN "High"
    ELSE "Medium"

----------------------------------------------------------------------------
(* Portfolio tables                                                        *)
(*                                                                         *)
(* A portfolio_df has `len` rows on the consecutive dates first,           *)
(* first+1, ...; its Daily_Return is NaN on the nanCnt rows starting at    *)
(* row nanAt and a number (or, when ~numeric, a non-numeric object)        *)
(* elsewhere.  feat holds the metrics of its windows (div: the ratio when   *)
(* the component volatilities are numbers).  components is the entry of    *)
(* component_returns_dict for the portfolio: "none" (no entry), "aligned"  *)
(* (a table on the portfolio's dates), "out_of_range" (a table with no row *)
(* on the dates of the window) or "unsliceable" (a table whose .loc slice  *)
(* raises); has_weights tells whether weights_dict has an entry, whose     *)
(* keys are columns of the component table.                                *)
(***************************************************************************)

\* a float that is not a number
NaN == -1

\* component_returns.loc[window_start:window_end], None when there is no
\* table or the slice raised
window_component_returns(p) ==
    CASE p.components = "none" -> "None"
      [] p.components = "unsliceable" -> "None"
      [] p.components = "out_of_range" -> "empty"
      [] OTHER -> "rows"

\* what compute_diversification_ratio returns on a window: the std of
\* a column without rows is NaN, and so is every sum and quotient made of it
window_diversification_ratio(p) ==
    IF window_component_returns(p) = "None" \/ ~p.has_weights THEN NaN
    ELSE IF p.feat.vol = 0 THEN DIV_ZERO_RISK
    ELSE IF window_component_returns(p) = "empty" THEN NaN
    ELSE p.feat.div

\* features.get("Diversification_Ratio", 1.0): the key is there when the
\* engineer was given a component table and a weight map
div_ratio(p) ==
    IF window_component_returns(p) # "None" /\ p.has_weights
    THEN window_diversification_ratio(p)
    ELSE DIV_DEFAULT

\* portfolio_df['Daily_Return'].dropna(): the dates of the rows that are kept
MutDroppedNaKeepsPositions(p) ==
    [i \in 1..(p.len - p.nanCnt) |-> p.first + (i - 1)]

DroppedNa(p) ==
    [i \in 1..(p.len - p.nanCnt) |->
        p.first + (i - 1) + (IF i - 1 >= p.nanAt THEN p.nanCnt ELSE 0)]

\* one iteration of the window loop: the row appended for start_idx
MutWindowRowSeriesDates(p, daily_returns, start_idx) ==
    [Portfolio_ID |-> p.id,
     Window_Start |-> daily_returns[1],
     Window_End   |-> daily_returns[Len(daily_returns)],
     Vol |-> p.feat.vol, VaR95 |-> p.feat.var95, MaxDD |-> p.feat.max_dd,
     DivRatio |-> div_ratio(p),
     Label |-> _assign_risk_label(p.feat.vol, p.feat.var95, p.feat.max_dd)]

WindowRow(p, daily_returns, start_idx) ==
    LET end_idx == start_idx + WINDOW_LENGTH
        window_returns == Slice(daily_returns, start_idx, end_idx)
    IN  [Portfolio_ID |-> p.id,
         Window_Start |-> window_returns[1],
         Window_End   |-> window_returns[Len(window_returns)],
         Vol |-> p.feat.vol, VaR95 |-> p.feat.var95, MaxDD |-> p.feat.max_dd,
         DivRatio |-> div_ratio(p),
         Label |-> _assign_risk_label(p.feat.vol, p.feat.var95, p.feat.max_dd)]

\* the start indices of the window loop
MutWindowStartsOffByOne(n_days) == Range(0, n_days - WINDOW_LENGTH, STEP_SIZE)

WindowStarts(n_days) == Range(0, n_days - WINDOW_LENGTH + 1, STEP_SIZE)

\* the rows the window loop appends for one portfolio
MutWindowRowsReversed(p) ==
    LET daily_returns == DroppedNa(p)
        starts == WindowStarts(Len(daily_returns))
    IN  [k \in 1..Len(starts) |->
            WindowRow(p, daily_returns, starts[Len(starts) + 1 - k])]

WindowRows(p) ==
    LET daily_returns == DroppedNa(p)
        starts == WindowStarts(Len(daily_returns))
    IN  [k \in 1..Len(starts) |-> WindowRow(p, daily_returns, starts[k])]

----------------------------------------------------------------------------
(* The forward-chaining split *)

\* the orders panel_dataset.sort_values(by="Window_End") can leave the rows
\* in: the sort is not stable, rows with equal Window_End come in any order
RECURSIVE SortOutcomes(_)
SortOutcomes(table) ==
    IF table = <<>> THEN {<<>>}
    ELSE LET r == table[Len(table)]
             front == SortOutcomes(SubSeq(table, 1, Len(table) - 1))
         IN  UNION {
               { SubSeq(s, 1, k) \o <<r>> \o SubSeq(s, k + 1, Len(s)) :
                   k \in { j \in 0..Len(s) :
                             /\ \A i \in 1..j : s[i].Window_End <= r.Window_End
                             /\ \A i \in (j + 1)..Len(s) :
                                    r.Window_End <= s[i].Window_End } }
               : s \in front }

\* _sort_chronologically
_sort_chronologically(panel_dataset) == SortOutcomes(panel_dataset)

\* sklearn TimeSeriesSplit(n_splits).split(X): the folds, as 0-based positions
TimeSeriesSplit(n_samples, n_splits) ==
    LET test_size == n_samples \div (n_splits + 1)
        test_starts == Range(n_samples - n_splits * test_size, n_samples, test_size)
    IN  [k \in 1..Len(test_starts) |->
            [train_index |-> Range(0, test_starts[k], 1),
             test_index  |-> Range(test_starts[k], test_starts[k] + test_size, 1)]]

----------------------------------------------------------------------------
(* Inputs of the panel pipeline *)

\* what compute_all_features returned for the windows of a portfolio
FeatureSamples ==
    { [vol |-> 100, var95 |-> 10, max_dd |-> 100, div |-> 1200],
      [vol |-> 250, var95 |-> 40, max_dd |-> 300, div |-> 1100],
      [vol |-> 0,   var95 |-> 10, max_dd |-> 0,   div |-> 1000] }

\* where the NaN rows of Daily_Return are
NanShapes ==
    { [nanAt |-> 0, nanCnt |-> 0], [nanAt |-> 0, nanCnt |-> 1],
      [nanAt |-> 130, nanCnt |-> 2] }

Portfolio(id, len, first, nan, hasCol, numeric, feat, components, has_weights) ==
    [id |-> id, len |-> len, first |-> first, nanAt |-> nan.nanAt,
     nanCnt |-> nan.nanCnt, hasCol |-> hasCol, numeric |-> numeric, feat |-> feat,
     components |-> components, has_weights |-> has_weights]

NoNan == [nanAt |-> 0, nanCnt |-> 0]

\* a build over one portfolio: every length up to MaxDays
SinglePortfolios ==
    UNION { { Portfolio("A", len, 0, nan, hasCol, numeric, feat, "aligned", TRUE) :
                nan \in { s \in NanShapes : s.nanAt + s.nanCnt <= len },
                hasCol \in BOOLEAN, numeric \in BOOLEAN, feat \in FeatureSamples }
            : len \in 0..MaxDays }

ComponentTables == {"none", "aligned", "out_of_range", "unsliceable"}
ComponentLengths == {126, 168}

\* a build over one portfolio: every kind of component table, with and
\* without a weight map
ComponentPortfolios ==
    { Portfolio("A", len, 0, NoNan, TRUE, TRUE, feat, components, has_weights) :
        len \in ComponentLengths, feat \in FeatureSamples,
        components \in ComponentTables, has_weights \in BOOLEAN }

PairLengths == {100, 147, 168, 190}
PairFirstDates == {0, 10, 21}

\* a build over two portfolios: the second may share the dates of the first,
\* lag it by a multiple of STEP_SIZE or lag it by less than a step
PairCatalogue(id) ==
    { Portfolio(id, len, first, nan, TRUE, TRUE, feat, "aligned", TRUE) :
        len \in PairLengths, first \in PairFirstDates,
        nan \in { s \in NanShapes : s.nanAt = 0 },
        feat \in { g \in FeatureSamples : g.vol > 0 } }
    \cup { Portfolio(id, 168, 0, NoNan, FALSE, TRUE, f, "aligned", TRUE) :
             f \in { g \in FeatureSamples : g.vol = 100 } }
    \cup { Portfolio(id, len, 0, NoNan, TRUE, FALSE, f, "aligned", TRUE) :
             len \in {100, 168}, f \in { g \in FeatureSamples : g.vol = 100 } }

----------------------------------------------------------------------------
(* DatasetBuilder.build_panel_dataset *)

InBuild == pc = "build" /\ pidx <= Len(portfolios)

n_days(p) == Len(DroppedNa(p))

\* 'Daily_Return' not in portfolio_df.columns: warn and continue
SkipMissingColumn ==
    /\ InBuild
    /\ ~portfolios[pidx].hasCol
    /\ pidx' = pidx + 1
    /\ UNCHANGED <<portfolios, pc, rows, panel_df, df_sorted, folds, is_trained, labelVars, builderVars, serveVars, moreVars>>

\* n_days < WINDOW_LENGTH: warn and continue
MutSkipShortRaises ==
    /\ InBuild
    /\ portfolios[pidx].hasCol
    /\ n_days(portfolios[pidx]) < WINDOW_LENGTH
    /\ pc' = "build_raised"
    /\ rows' = <<>>
    /\ UNCHANGED <<portfolios, pidx, panel_df, df_sorted, folds, is_trained, labelVars, builderVars, serveVars, moreVars>>

SkipShort ==
    /\ InBuild
    /\ portfolios[pidx].hasCol
    /\ n_days(portfolios[pidx]) < WINDOW_LENGTH
    /\ pidx' = pidx + 1
    /\ UNCHANGED <<portfolios, pc, rows, panel_df, df_sorted, folds, is_trained, labelVars, builderVars, serveVars, moreVars>>

\* the window loop of one portfolio, every window computed
ProcessWindows ==
    /\ InBuild
    /\ portfolios[pidx].hasCol
    /\ n_days(portfolios[pidx]) >= WINDOW_LENGTH
    /\ portfolios[pidx].numeric
    /\ rows' = rows \o WindowRows(portfolios[pidx])
    /\ pidx' = pidx + 1
    /\ UNCHANGED <<portfolios, pc, panel_df, df_sorted, folds, is_trained, labelVars, builderVars, serveVars, moreVars>>

\* the window loop of one portfolio, compute_all_features raising on its
\* first window: nothing catches it, build_panel_dataset ends by the exception
FeatureError ==
    /\ InBuild
    /\ portfolios[pidx].hasCol
    /\ n_days(portfolios[pidx]) >= WINDOW_LENGTH
    /\ ~portfolios[pidx].numeric
    /\ pc' = "build_raised"
    /\ rows' = <<>>
    /\ UNCHANGED <<portfolios, pidx, panel_df, df_sorted, folds, is_trained, labelVars, builderVars, serveVars, moreVars>>

\* panel_df = pd.DataFrame(rows); return panel_df
ReturnPanel ==
    /\ pc = "build"
    /\ pidx > Len(portfolios)
    /\ panel_df' = rows
    /\ pc' = "built"
    /\ UNCHANGED <<portfolios, pidx, rows, df_sorted, folds, is_trained, labelVars, builderVars, serveVars, moreVars>>

----------------------------------------------------------------------------
(* RiskClassifier.train_and_evaluate, as train_model.main calls it *)

\* an empty table has no feature columns; TimeSeriesSplit refuses fewer
\* samples than n_splits + 1: both end the call by a ValueError
TrainRaises ==
    /\ pc = "built"
    /\ Len(panel_df) < N_SPLITS + 1
    /\ pc' = "train_raised"
    /\ UNCHANGED <<portfolios, pidx, rows, panel_df, df_sorted, folds, is_trained, labelVars, builderVars, serveVars, moreVars>>

TrainAndEvaluate ==
    /\ pc = "built"
    /\ Len(panel_df) >= N_SPLITS + 1
    /\ \E sorted \in _sort_chronologically(panel_df) :
          /\ df_sorted' = sorted
          /\ folds' = TimeSeriesSplit(Len(sorted), N_SPLITS)
    /\ is_trained' = TRUE
    /\ pc' = "trained"
    /\ UNCHANGED <<portfolios, pidx, rows, panel_df, labelVars, builderVars, serveVars, moreVars>>

----------------------------------------------------------------------------
(* The panel pipeline *)

Init ==
    /\ portfolios \in { <<p>> : p \in SinglePortfolios \cup ComponentPortfolios }
                      \cup { <<p, q>> : p \in PairCatalogue("A"), q \in PairCatalogue("B") }
    /\ pc = "build"
    /\ pidx = 1
    /\ rows = <<>>
    /\ panel_df = <<>>
    /\ df_sorted = <<>>
    /\ folds = <<>>
    /\ is_trained = FALSE
    /\ IdleLabel
    /\ IdleBuilder
    /\ IdleServe
    /\ IdleMore

Next ==
    \/ SkipMissingColumn
    \/ SkipShort
    \/ ProcessWindows
    \/ FeatureError
    \/ ReturnPanel
    \/ TrainRaises
    \/ TrainAndEvaluate

Spec == Init /\ [][Next]_vars

----------------------------------------------------------------------------
(* Properties of the panel pipeline *)

\* build_panel_dataset has returned its table
Returned == pc \in {"built", "trained", "train_raised"}

\* the rows of a table that belong to one portfolio
RowsOf(table, id) == SelectSeq(table, LAMBDA r : r.Portfolio_ID = id)

\* the number of non-missing returns of a portfolio table
NonMissing(p) == p.len - p.nanCnt

PortfolioIndex(id) == CHOOSE i \in 1..Len(portfolios) : portfolios[i].id = id

Ascending(table) ==
    \A i \in 1..(Len(table) - 1) : table[i].Window_End <= table[i + 1].Window_End

\* C1: a portfolio with n >= 126 non-missing returns has exactly
\* floor((n - 126) / 21) + 1 rows in the table build_panel_dataset returns.
C1_RowCount ==
    Returned =>
        \A i \in 1..Len(portfolios) :
            LET p == portfolios[i]
                n == NonMissing(p)
            IN  (p.hasCol /\ n >= 126) =>
                    Len(RowsOf(panel_df, p.id)) = ((n - 126) \div 21) + 1

\* a single portfolio of 300 non-missing returns gave 9 rows
C1_Witness ==
    /\ Returned
    /\ Len(portfolios) = 1
    /\ portfolios[1].hasCol
    /\ NonMissing(portfolios[1]) = 300
    /\ Len(panel_df) = 9

\* C4: in every fold of train_and_evaluate every test row's Window_End is
\* strictly later than every training row's Window_End.
C4_TestStrictlyLater ==
    pc = "trained" =>
        \A k \in 1..Len(folds) :
            \A a \in 1..Len(folds[k].train_index) :
                \A b \in 1..Len(folds[k].test_index) :
                    df_sorted[folds[k].test_index[b] + 1].Window_End
                        > df_sorted[folds[k].train_index[a] + 1].Window_End

\* C5 as claimed: the table build_panel_dataset returns is in ascending
\* Window_End order, whatever the number of portfolios.
C5_PanelAscending == Returned => Ascending(panel_df)

\* C5 as amended: the returned table is in ascending Window_End order within
\* the rows of each portfolio (so the whole table is when one portfolio
\* contributes all rows); the table is in ascending Window_End order as a
\* whole only once train_and_evaluate has sorted it.
C5_AscendingPerPortfolio ==
    /\ \A i \in 1..Len(portfolios) : Ascending(RowsOf(rows, portfolios[i].id))
    /\ \A i \in 1..Len(portfolios) : Ascending(RowsOf(panel_df, portfolios[i].id))
    /\ (\E i \in 1..Len(portfolios) : RowsOf(panel_df, portfolios[i].id) = panel_df)
           => Ascending(panel_df)
    /\ pc = "trained" =>
           /\ Ascending(df_sorted)
           /\ Len(df_sorted) = Len(panel_df)
           /\ \A i \in 1..Len(panel_df) :
                  \E j \in 1..Len(df_sorted) : df_sorted[j] = panel_df[i]

\* two portfolios were built into a table that is not ascending, and
\* train_and_evaluate sorted it
C5_Witness ==
    /\ pc = "trained"
    /\ ~Ascending(panel_df)
    /\ Ascending(df_sorted)

\* C6: within one portfolio the rows come in strictly increasing Window_Start
\* and strictly increasing Window_End order, a (Portfolio_ID, Window_Start)
\* pair occurs at most once, and rows of different portfolios come in
\* portfolio iteration order.  It holds of the list being built and of the
\* table returned.
C6_OrderIn(table) ==
    \A i \in 1..Len(table) : \A j \in (i + 1)..Len(table) :
        /\ table[i].Portfolio_ID = table[j].Portfolio_ID =>
               /\ table[i].Window_Start < table[j].Window_Start
               /\ table[i].Window_End < table[j].Window_End
        /\ ~(/\ table[i].Portfolio_ID = table[j].Portfolio_ID
             /\ table[i].Window_Start = table[j].Window_Start)
        /\ PortfolioIndex(table[i].Portfolio_ID)
               <= PortfolioIndex(table[j].Portfolio_ID)

C6_WindowOrder == C6_OrderIn(rows) /\ C6_OrderIn(panel_df)

\* a returned table with at least two rows of each of two portfolios
C6_Witness ==
    /\ Returned
    /\ Len(portfolios) = 2
    /\ Len(RowsOf(panel_df, "A")) >= 2
    /\ Len(RowsOf(panel_df, "B")) >= 2

\* a portfolio with the Daily_Return column and fewer than 126 non-missing returns
Short(p) == p.hasCol /\ NonMissing(p) < 126

\* C7: a portfolio with fewer than 126 non-missing returns contributes no row
\* and is never where the build raises; the step that skips it leaves the rows
\* collected so far as they are and goes on to the next portfolio; the table
\* returned holds every row of the other portfolios; a build in which every
\* portfolio is too short returns an empty table.
C7_ShortSkipped ==
    /\ [](/\ pc = "build_raised" => ~Short(portfolios[pidx])
          /\ \A i \in 1..Len(portfolios) :
                Short(portfolios[i]) =>
                    /\ RowsOf(rows, portfolios[i].id) = <<>>
                    /\ RowsOf(panel_df, portfolios[i].id) = <<>>
          /\ (\A i \in 1..Len(portfolios) : Short(portfolios[i])) =>
                /\ pc # "build_raised"
                /\ Returned => panel_df = <<>>
          /\ (Returned /\ \E i \in 1..Len(portfolios) : Short(portfolios[i])) =>
                \A j \in 1..Len(portfolios) :
                    (portfolios[j].hasCol /\ ~Short(portfolios[j])) =>
                        Len(RowsOf(panel_df, portfolios[j].id))
                            = ((NonMissing(portfolios[j]) - 126) \div 21) + 1)
    /\ [][(InBuild /\ Short(portfolios[pidx])) =>
              /\ pc' = "build"
              /\ rows' = rows
              /\ pidx' = pidx + 1]_vars

\* a short portfolio was skipped and the other portfolio has its rows in the
\* returned table
C7_Witness ==
    /\ Returned
    /\ Len(portfolios) = 2
    /\ Short(portfolios[1])
    /\ ~Short(portfolios[2])
    /\ Len(panel_df) >= 1
    /\ RowsOf(panel_df, portfolios[2].id) = panel_df

\* C10: when compute_all_features raises for a window of one portfolio the
\* build does not end by the exception: that portfolio is skipped and the
\* table is still returned.
C10_FailureIsolated ==
    (\E i \in 1..Len(portfolios) :
        /\ portfolios[i].hasCol
        /\ NonMissing(portfolios[i]) >= 126
        /\ ~portfolios[i].numeric)
    => pc # "build_raised"

\* the ratio of a window cannot be computed: there is no component table, no
\* weight map, or the table cannot be sliced to the window or has no row in it
RatioNotComputable(p) ==
    \/ p.components \in {"none", "unsliceable", "out_of_range"}
    \/ ~p.has_weights

\* C12: every row of the returned table has a DivRatio that is a number, and
\* it is exactly 1.0 when the ratio of the window cannot be computed; a build
\* never ends by an exception because of the component table.
C12_DivRatioDefined ==
    /\ Returned =>
          \A i \in 1..Len(panel_df) :
             LET p == portfolios[PortfolioIndex(panel_df[i].Portfolio_ID)]
             IN  /\ panel_df[i].DivRatio # NaN
                 /\ RatioNotComputable(p) => panel_df[i].DivRatio = DIV_DEFAULT
    /\ pc = "build_raised" => \E i \in 1..Len(portfolios) : ~portfolios[i].numeric

----------------------------------------------------------------------------
(* The label rule on its own: _assign_risk_label applied to one triple *)

\* metric values on both sides of every threshold, in 1/1000
VolGrid == {0, 100, LOW_VOL - 1, LOW_VOL, LOW_VOL + 1, 150,
            HIGH_VOL - 1, HIGH_VOL, HIGH_VOL + 1, 250, MaxMetric}
DDGrid == {0, 100, LOW_DD - 1, LOW_DD, LOW_DD + 1, 200,
           HIGH_DD - 1, HIGH_DD, HIGH_DD + 1, MaxMetric}
VarGrid == {0, 10, HIGH_VAR - 1, HIGH_VAR, HIGH_VAR + 1, 40, MaxMetric}

InitLabel ==
    /\ pc = "label"
    /\ metrics \in [vol : VolGrid, var95 : VarGrid, max_dd : DDGrid]
    /\ label = "none"
    /\ IdlePanel
    /\ IdleBuilder
    /\ IdleServe
    /\ IdleMore

\* label = self._assign_risk_label(vol, var95, max_dd)
AssignLabel ==
    /\ pc = "label"
    /\ label' = _assign_risk_label(metrics.vol, metrics.var95, metrics.max_dd)
    /\ pc' = "labelled"
    /\ UNCHANGED <<metrics, panelVars, builderVars, serveVars, moreVars>>

NextLabel == AssignLabel

SpecLabel == InitLabel /\ [][NextLabel]_vars

\* the two conditions of the rule, as the claims state them
LowCondition == metrics.vol < 120 /\ metrics.max_dd < 150
HighCondition == metrics.vol > 200 \/ metrics.max_dd > 250 \/ metrics.var95 > 30

\* C2: the label is Low exactly when vol < 0.12 and max_dd < 0.15; otherwise
\* High exactly when vol > 0.20 or max_dd > 0.25 or var95 > 0.03; otherwise
\* Medium.  Every triple gets one of the three labels; vol > 0.20 is always
\* High, (vol 0.10, max_dd 0.10) is Low, (0.15, 0.01, 0.20) is Medium.
C2_LabelRule ==
    pc = "labelled" =>
        /\ label \in {"Low", "Medium", "High"}
        /\ label = "Low" <=> LowCondition
        /\ label = "High" <=> (~LowCondition /\ HighCondition)
        /\ label = "Medium" <=> (~LowCondition /\ ~HighCondition)
        /\ metrics.vol > 200 => label = "High"
        /\ (metrics.vol = 100 /\ metrics.max_dd = 100) => label = "Low"
        /\ (metrics.vol = 150 /\ metrics.max_dd = 200 /\ metrics.var95 = 10)
               => label = "Medium"

\* a triple with vol > 0.20 and max_dd < 0.15 was labelled High
C2_Witness ==
    /\ pc = "labelled"
    /\ metrics.vol = 250
    /\ metrics.max_dd = 100
    /\ metrics.var95 = 0
    /\ label = "High"

\* C3 as claimed: no triple satisfies the Low condition and the High
\* condition at the same time.
C3_LowHighDisjoint == pc = "labelled" => ~(LowCondition /\ HighCondition)

\* C3 as amended: a triple satisfies both conditions only through
\* var95 > 0.03 (the Low condition excludes vol > 0.20 and max_dd > 0.25),
\* and such a triple is labelled Low because Low is tested first.
C3_OverlapOnlyThroughVar ==
    (pc = "labelled" /\ LowCondition /\ HighCondition) =>
        /\ metrics.var95 > 30
        /\ ~(metrics.vol > 200)
        /\ ~(metrics.max_dd > 250)
        /\ label = "Low"

\* a triple that satisfies both conditions was labelled
C3_Witness ==
    /\ pc = "labelled"
    /\ LowCondition
    /\ HighCondition
    /\ label = "Low"

----------------------------------------------------------------------------
(* PortfolioBuilder *)

Abs(x) == IF x < 0 THEN -x ELSE x

\* np.isclose(a, b, rtol=1e-5): |a - b| <= atol + rtol * |b|
MutIsCloseNoAtol(a, b) == Abs(a - b) <= Abs(b) \div RTOL_INV

isclose(a, b) == Abs(a - b) <= ISCLOSE_ATOL + Abs(b) \div RTOL_INV

\* sum(weights.values())
RECURSIVE SumValues(_)
SumValues(w) ==
    IF DOMAIN w = {} THEN 0
    ELSE LET t == CHOOSE x \in DOMAIN w : TRUE
         IN  w[t] + SumValues([x \in DOMAIN w \ {t} |-> w[x]])

\* ticker in self.available_tickers
Available(tickers, t) == \E i \in 1..Len(tickers) : tickers[i] = t

\* PortfolioBuilder._validate_weights: the message of the ValueError raised,
\* or "ok"
_validate_weights(w, tickers) ==
    IF DOMAIN w = {} THEN "Weights dictionary cannot be empty."
    ELSE IF \E t \in DOMAIN w : ~Available(tickers, t)
         THEN "Ticker not found in available price data."
    ELSE IF ~isclose(SumValues(w), ONE)
         THEN "Portfolio weights must sum to 1.0."
    ELSE "ok"

\* PortfolioBuilder.build_portfolio: the ValueError, or the table returned
\* (one row per row of daily_returns)
build_portfolio(w, tickers, n) ==
    LET v == _validate_weights(w, tickers)
    IN  IF v # "ok"
        THEN [called |-> TRUE, raised |-> TRUE, error |-> v, n_rows |-> 0]
        ELSE [called |-> TRUE, raised |-> FALSE, error |-> "", n_rows |-> n]

\* weight values: 0.4, 0.5, 0.6 and values that put a sum of two at
\* 1.0 + 1e-5, 1.0 +- 1.0005e-5 and 1.0 + 1.002e-5
WeightSamples ==
    {400000000, 500000000, 600000000, 500010000,
     500010005, 499989995, 500010020}

TickerUniverse == {"T1", "T2", "X"}

\* the dicts a caller can pass: any keys of the universe, any sample values
WeightMaps == UNION { [K -> WeightSamples] : K \in SUBSET TickerUniverse }

InitWeights ==
    /\ pc = "builder"
    /\ available_tickers \in {<<"T1">>, <<"T1", "T2">>}
    /\ n_returns \in {0, 3}
    /\ weights = <<>>
    /\ result = NoResult
    /\ IdlePanel
    /\ IdleLabel
    /\ IdleServe
    /\ IdleMore

\* builder.build_portfolio(weights), on a builder that stays as constructed
BuildPortfolio ==
    /\ pc = "builder"
    /\ \E w \in WeightMaps :
          /\ weights' = w
          /\ result' = build_portfolio(w, available_tickers, n_returns)
    /\ UNCHANGED <<pc, available_tickers, n_returns, panelVars, labelVars, serveVars, moreVars>>

NextWeights == BuildPortfolio

SpecWeights == InitWeights /\ [][NextWeights]_vars

\* the three grounds of rejection, with the tolerance as a parameter
RejectionGrounds(tolerance) ==
    \/ DOMAIN weights = {}
    \/ \E t \in DOMAIN weights :
          \A i \in 1..Len(available_tickers) : available_tickers[i] # t
    \/ SumValues(weights) - 1000000000 > tolerance
    \/ 1000000000 - SumValues(weights) > tolerance

\* C8 as claimed: build_portfolio rejects exactly the weight maps that are
\* empty, have a key that is no asset of the return table, or sum to a value
\* that differs from 1.0 by more than 1e-5.
C8_RejectsExactly ==
    result.called => (result.raised <=> RejectionGrounds(10000))

\* C8 as amended: the same with the tolerance np.isclose applies, a sum that
\* differs from 1.0 by more than 1e-5 + 1e-8; an accepted map yields a table
\* with one row per row of the return table.
C8_RejectsExactlyIsClose ==
    result.called =>
        /\ result.raised <=> RejectionGrounds(10010)
        /\ ~result.raised => result.n_rows = n_returns

\* a map with known keys whose sum is 1.0 + 1.0005e-5 was accepted
C8_Witness ==
    /\ result.called
    /\ ~result.raised
    /\ DOMAIN weights = {"T1", "T2"}
    /\ SumValues(weights) = 1000010005

----------------------------------------------------------------------------
(* predict_risk, the serving path *)

\* sum([h.weight for h in request.holdings])
RECURSIVE SumHoldings(_)
SumHoldings(holdings) ==
    IF holdings = <<>> THEN 0
    ELSE holdings[1].weight + SumHoldings(Tail(holdings))

\* ETFDataFetcher.fetch_data: weights[ticker] = weight for each holding in
\* turn, a later holding of the same ticker replacing the earlier one
RECURSIVE WeightsOf(_)
WeightsOf(holdings) ==
    IF holdings = <<>> THEN <<>>
    ELSE LET h == holdings[Len(holdings)]
             before == WeightsOf(SubSeq(holdings, 1, Len(holdings) - 1))
         IN  [t \in DOMAIN before \cup {h.ticker} |->
                 IF t = h.ticker THEN h.weight ELSE before[t]]

\* the columns of the price table: the requested tickers, each once
RECURSIVE ColumnsOf(_)
ColumnsOf(holdings) ==
    IF holdings = <<>> THEN <<>>
    ELSE LET before == ColumnsOf(SubSeq(holdings, 1, Len(holdings) - 1))
             t == holdings[Len(holdings)].ticker
         IN  IF Available(before, t) THEN before ELSE Append(before, t)

\* raise HTTPException(status_code=..., detail=...)
HTTPException(status, detail) ==
    [status |-> status, detail |-> detail, risk_class |-> "none"]

ServeWeightSamples == {400000000, 470000000, 500000000, 530000000, 700000000}
ServeTickers == {"T1", "T2"}

\* rows of the price table yfinance returns (never empty: fetch_data raises
\* on an empty download)
PriceRowSamples == {1, 126, 127, 200}

Holdings ==
    LET H == [ticker : ServeTickers, weight : ServeWeightSamples]
    IN  {<<>>} \cup { <<h>> : h \in H } \cup { <<h, g>> : h \in H, g \in H }

InitServe ==
    /\ pc = "request"
    /\ sklearn_model \in BOOLEAN
    /\ request \in Holdings
    /\ response = NoResponse
    /\ IdlePanel
    /\ IdleLabel
    /\ IdleBuilder
    /\ IdleMore

Answer(r) ==
    /\ response' = r
    /\ pc' = "responded"

\* if not sklearn_model: raise HTTPException(500)
ServeNoModel ==
    /\ pc = "request"
    /\ ~sklearn_model
    /\ Answer(HTTPException(500, "RiskClassifier model is not loaded."))
    /\ UNCHANGED <<sklearn_model, request, panelVars, labelVars, builderVars, moreVars>>

\* 1. the weight check fails: the HTTPException raised in the try block is
\* caught by `except Exception` and raised again with status 400
ServeRejectWeights ==
    /\ pc = "request"
    /\ sklearn_model
    /\ ~(SOFT_LOW <= SumHoldings(request) /\ SumHoldings(request) <= SOFT_HIGH)
    /\ Answer(HTTPException(400, "Portfolio weights must sum to ~1.0."))
    /\ UNCHANGED <<sklearn_model, request, panelVars, labelVars, builderVars, moreVars>>

\* 1. the weight check passes
ServeAcceptWeights ==
    /\ pc = "request"
    /\ sklearn_model
    /\ SOFT_LOW <= SumHoldings(request) /\ SumHoldings(request) <= SOFT_HIGH
    /\ pc' = "ingest"
    /\ UNCHANGED <<serveVars, panelVars, labelVars, builderVars, moreVars>>

\* 3. fetcher.fetch_data raises (download failed, a ticker without data)
IngestRaises ==
    /\ pc = "ingest"
    /\ Answer(HTTPException(400, "Error fetching underlying stock data"))
    /\ UNCHANGED <<sklearn_model, request, panelVars, labelVars, builderVars, moreVars>>

\* 3. fetcher.fetch_data returns the price table and the weights, and
\* PortfolioBuilder(price_data) takes its returns: one row less than prices
IngestReturns ==
    /\ pc = "ingest"
    /\ \E price_rows \in PriceRowSamples : n_returns' = price_rows - 1
    /\ weights' = WeightsOf(request)
    /\ available_tickers' = ColumnsOf(request)
    /\ pc' = "aggregate"
    /\ UNCHANGED <<result, serveVars, panelVars, labelVars, moreVars>>

\* 3. builder.build_portfolio(weights) raises
AggregateRaises ==
    /\ pc = "aggregate"
    /\ build_portfolio(weights, available_tickers, n_returns).raised
    /\ result' = build_portfolio(weights, available_tickers, n_returns)
    /\ Answer(HTTPException(400, result'.error))
    /\ UNCHANGED <<sklearn_model, request, available_tickers, n_returns, weights,
                   panelVars, labelVars, moreVars>>

\* 3. builder.build_portfolio(weights) returns portfolio_df
AggregateReturns ==
    /\ pc = "aggregate"
    /\ ~build_portfolio(weights, available_tickers, n_returns).raised
    /\ result' = build_portfolio(weights, available_tickers, n_returns)
    /\ pc' = "window"
    /\ UNCHANGED <<serveVars, available_tickers, n_returns, weights,
                   panelVars, labelVars, moreVars>>

MutInsufficientDataPredicts ==
    /\ pc = "window"
    /\ result.n_rows < INFERENCE_DAYS
    /\ Answer([status |-> 200, detail |-> "", risk_class |-> "Low"])
    /\ UNCHANGED <<sklearn_model, request, panelVars, labelVars, builderVars, moreVars>>

\* 4. fewer than 126 returns: ValueError
InsufficientData ==
    /\ pc = "window"
    /\ result.n_rows < INFERENCE_DAYS
    /\ Answer(HTTPException(400, "Insufficient data"))
    /\ UNCHANGED <<sklearn_model, request, panelVars, labelVars, builderVars, moreVars>>

\* 5.-6. the features are computed and sklearn_model.predict raises
PredictRaises ==
    /\ pc = "window"
    /\ result.n_rows >= INFERENCE_DAYS
    /\ Answer(HTTPException(400, "predict failed"))
    /\ UNCHANGED <<sklearn_model, request, panelVars, labelVars, builderVars, moreVars>>

\* 5.-7. the features are computed, the model predicts, the response is built
PredictReturns ==
    /\ pc = "window"
    /\ result.n_rows >= INFERENCE_DAYS
    /\ \E prediction \in {"Low", "Medium", "High"} :
          Answer([status |-> 200, detail |-> "", risk_class |-> prediction])
    /\ UNCHANGED <<sklearn_model, request, panelVars, labelVars, builderVars, moreVars>>

NextServe ==
    \/ ServeNoModel
    \/ ServeRejectWeights
    \/ ServeAcceptWeights
    \/ IngestRaises
    \/ IngestReturns
    \/ AggregateRaises
    \/ AggregateReturns
    \/ InsufficientData
    \/ PredictRaises
    \/ PredictReturns

SpecServe == InitServe /\ [][NextServe]_vars

\* C9: a request whose holding weights sum to a value in [0.95, 1.05] is not
\* rejected for its weights: once ingestion has returned, aggregation goes on
\* to the feature computation.
C9_SoftToleranceServes ==
    (/\ 950000000 <= SumHoldings(request)
     /\ SumHoldings(request) <= 1050000000
     /\ pc = "responded")
    => response.detail \notin {"Portfolio weights must sum to ~1.0.",
                               "Portfolio weights must sum to 1.0.",
                               "Weights dictionary cannot be empty.",
                               "Ticker not found in available price data."}

\* C14: a response carries a risk_class only when the model was loaded, the
\* weight check passed, ingestion returned, aggregation accepted the weights
\* and at least 126 returns were there; every other request ends with an
\* error status, a message and no risk_class, and nothing is answered before
\* the request has ended.
C14_RiskClassOnlyOnSuccess ==
    /\ pc # "responded" => response = NoResponse
    /\ pc = "responded" =>
          \/ /\ response.status = 200
             /\ response.risk_class \in {"Low", "Medium", "High"}
             /\ sklearn_model
             /\ SOFT_LOW <= SumHoldings(request) /\ SumHoldings(request) <= SOFT_HIGH
             /\ weights = WeightsOf(request)
             /\ result.called /\ ~result.raised
             /\ _validate_weights(weights, available_tickers) = "ok"
             /\ n_returns >= INFERENCE_DAYS
          \/ /\ response.status \in {400, 500}
             /\ response.detail # ""
             /\ response.risk_class = "none"

\* a request with two holdings served on exactly 126 returns
C14_Witness ==
    /\ pc = "responded"
    /\ response.status = 200
    /\ n_returns = INFERENCE_DAYS
    /\ Len(request) = 2

----------------------------------------------------------------------------
(* train_model.main: ingestion loop, panel build, training *)

\* the holdings a portfolio definition may list: weights that sum to 1.0,
\* weights that sum to 0.9, no holding at all
MainHoldings ==
    { <<[ticker |-> "T1", weight |-> 500000000], [ticker |-> "T2", weight |-> 500000000]>>,
      <<[ticker |-> "T1", weight |-> 500000000], [ticker |-> "T2", weight |-> 400000000]>>,
      <<>> }

\* the etf_name of each definition of the list
EtfNames == <<"P1", "P2", "P3">>

\* the number of rows of the price table fetch_data returns
MainPriceRows == {100, 127, 148}

\* the metrics of the windows of a fetched portfolio
MainFeature == CHOOSE f \in FeatureSamples : f.vol = 100

InitMain ==
    /\ pc = "main_loop"
    /\ port_defs \in { [i \in 1..Len(EtfNames) |-> [etf_name |-> EtfNames[i], holdings |-> h[i]]] :
                          h \in [1..Len(EtfNames) -> MainHoldings] }
    /\ midx = 1
    /\ main_log = <<>>
    /\ IdlePanel
    /\ IdleLabel
    /\ IdleBuilder
    /\ IdleServe
    /\ IdleTables
    /\ IdleEngineer

InLoop == pc = "main_loop" /\ midx <= Len(port_defs)

\* except Exception as e: logger.error(...), and the loop goes on
LogFailure(step) ==
    /\ main_log' = Append(main_log, [etf_name |-> port_defs[midx].etf_name, outcome |-> step])
    /\ midx' = midx + 1
    /\ UNCHANGED <<pc, port_defs, panelVars, labelVars, builderVars, serveVars,
                   tableVars, engineerVars>>

\* fetcher.fetch_data(port_def) raises: no holdings, or the download or its
\* validation failed
MainFetchRaises ==
    /\ InLoop
    /\ LogFailure("fetch_failed")

MutMainAggregateAborts ==
    /\ InLoop
    /\ port_defs[midx].holdings # <<>>
    /\ \E price_rows \in MainPriceRows :
          build_portfolio(WeightsOf(port_defs[midx].holdings),
                          ColumnsOf(port_defs[midx].holdings), price_rows - 1).raised
    /\ main_log' = Append(main_log, [etf_name |-> port_defs[midx].etf_name,
                                      outcome |-> "aggregate_failed"])
    /\ pc' = "main_exit"
    /\ UNCHANGED <<midx, port_defs, panelVars, labelVars, builderVars, serveVars,
                   tableVars, engineerVars>>

\* fetch_data returns and builder.build_portfolio(weights) raises
MainAggregateRaises ==
    /\ InLoop
    /\ port_defs[midx].holdings # <<>>
    /\ \E price_rows \in MainPriceRows :
          build_portfolio(WeightsOf(port_defs[midx].holdings),
                          ColumnsOf(port_defs[midx].holdings), price_rows - 1).raised
    /\ LogFailure("aggregate_failed")

\* the three dict entries are stored
MainPortfolioBuilt ==
    /\ InLoop
    /\ port_defs[midx].holdings # <<>>
    /\ \E price_rows \in MainPriceRows :
          LET built == build_portfolio(WeightsOf(port_defs[midx].holdings),
                                       ColumnsOf(port_defs[midx].holdings), price_rows - 1)
          IN  /\ ~built.raised
              /\ portfolios' = Append(portfolios,
                    Portfolio(port_defs[midx].etf_name, built.n_rows, 1, NoNan, TRUE, TRUE,
                              MainFeature, "aligned", TRUE))
    /\ main_log' = Append(main_log, [etf_name |-> port_defs[midx].etf_name, outcome |-> "ok"])
    /\ midx' = midx + 1
    /\ UNCHANGED <<pc, port_defs, pidx, rows, panel_df, df_sorted, folds, is_trained,
                   labelVars, builderVars, serveVars, tableVars, engineerVars>>

\* if not portfolios: return
MainExit ==
    /\ pc = "main_loop"
    /\ midx > Len(port_defs)
    /\ portfolios = <<>>
    /\ pc' = "main_exit"
    /\ UNCHANGED <<panelVars, labelVars, builderVars, serveVars, moreVars>>

\* DatasetBuilder(portfolios=...).build_panel_dataset() is entered
MainBuildDataset ==
    /\ pc = "main_loop"
    /\ midx > Len(port_defs)
    /\ portfolios # <<>>
    /\ pc' = "build"
    /\ UNCHANGED <<panelVars, labelVars, builderVars, serveVars, moreVars>>

\* panel_df['Label'] of a table without rows (and so without columns)
MainLabelCountsRaise ==
    /\ pc = "built"
    /\ panel_df = <<>>
    /\ pc' = "main_raised"
    /\ UNCHANGED <<panelVars, labelVars, builderVars, serveVars, moreVars>>

MainTrainRaises == panel_df # <<>> /\ TrainRaises

MainTrainAndEvaluate == panel_df # <<>> /\ TrainAndEvaluate

NextMain ==
    \/ MainFetchRaises
    \/ MainAggregateRaises
    \/ MainPortfolioBuilt
    \/ MainExit
    \/ MainBuildDataset
    \/ SkipShort
    \/ ProcessWindows
    \/ ReturnPanel
    \/ MainLabelCountsRaise
    \/ MainTrainRaises
    \/ MainTrainAndEvaluate

SpecMain == InitMain /\ [][NextMain]_vars

\* the definitions the loop has stored a portfolio for, in order
Succeeded == SelectSeq(main_log, LAMBDA e : e.outcome = "ok")

\* C11: a definition whose ingestion or aggregation fails is dropped alone:
\* the loop goes through every definition, the portfolios handed to the panel
\* build are exactly those aggregated successfully, the table returned holds
\* the rows of each of them and of no other, and the pipeline ends before the
\* panel build only when no definition succeeded.
C11_DroppedAlone ==
    /\ pc = "main_loop" => Len(main_log) = midx - 1
    /\ pc # "main_loop" => Len(main_log) = Len(port_defs)
    /\ \A i \in 1..Len(main_log) : main_log[i].etf_name = port_defs[i].etf_name
    /\ Len(portfolios) = Len(Succeeded)
    /\ \A i \in 1..Len(portfolios) : portfolios[i].id = Succeeded[i].etf_name
    /\ pc = "main_exit" => Succeeded = <<>>
    /\ pc \notin {"main_loop", "main_exit"} => Succeeded # <<>>
    /\ Returned \/ pc = "main_raised" =>
          /\ \A i \in 1..Len(portfolios) :
                RowsOf(panel_df, portfolios[i].id) = WindowRows(portfolios[i])
          /\ \A i \in 1..Len(panel_df) :
                \E j \in 1..Len(portfolios) : panel_df[i].Portfolio_ID = portfolios[j].id

\* a definition failed in aggregation, another in ingestion, a later one
\* succeeded and the table returned has its rows
C11_Witness ==
    /\ pc = "built"
    /\ main_log[1].outcome = "aggregate_failed"
    /\ main_log[2].outcome = "fetch_failed"
    /\ main_log[3].outcome = "ok"
    /\ Len(panel_df) = 2

----------------------------------------------------------------------------
(* Exact arithmetic on the values of the tables: a number is the fraction  *)
(* num/den in lowest terms with den > 0; num = den = 0 stands for NaN.     *)

RECURSIVE GCD(_, _)
GCD(a, b) == IF b = 0 THEN a ELSE GCD(b, a % b)

Rat(n, d) ==
    LET g == GCD(Abs(n), Abs(d))
    IN  IF d < 0 THEN [num |-> (0 - n) \div g, den |-> (0 - d) \div g]
        ELSE [num |-> n \div g, den |-> d \div g]

RNaN == [num |-> 0, den |-> 0]

IsNaN(a) == a.den = 0

RInt(n) == [num |-> n, den |-> 1]

RAdd(a, b) ==
    IF IsNaN(a) \/ IsNaN(b) THEN RNaN
    ELSE LET g == GCD(a.den, b.den)
         IN  Rat(a.num * (b.den \div g) + b.num * (a.den \div g), (a.den \div g) * b.den)

RSub(a, b) == RAdd(a, [num |-> 0 - b.num, den |-> b.den])

RMul(a, b) ==
    IF IsNaN(a) \/ IsNaN(b) THEN RNaN
    ELSE LET g1 == GCD(Abs(a.num), b.den)
             g2 == GCD(Abs(b.num), a.den)
         IN  Rat((a.num \div g1) * (b.num \div g2), (a.den \div g2) * (b.den \div g1))

\* a / b; 0/0 is NaN (a quotient by zero of a non-zero value does not occur
\* for the values used)
RDiv(a, b) ==
    IF IsNaN(a) \/ IsNaN(b) \/ b.num = 0 THEN RNaN
    ELSE RMul(a, Rat(b.den, b.num))

RLess(a, b) == a.num * b.den < b.num * a.den

RAbs(a) == [num |-> Abs(a.num), den |-> a.den]

----------------------------------------------------------------------------
(* PortfolioBuilder on its tables                                          *)
(*                                                                         *)
(* A table is [columns, index, data]: the column names in order, the dates *)
(* of the rows, and for each column the values of the rows.                *)

\* DataFrame.pct_change(): NaN on the first row, p_t / p_(t-1) - 1 after it
MutPctChangeOverCurrent(table) ==
    [columns |-> table.columns, index |-> table.index,
     data |-> [c \in DOMAIN table.data |->
                 [i \in 1..Len(table.index) |->
                     IF i = 1 THEN RNaN
                     ELSE RSub(RInt(1), Rat(table.data[c][i - 1], table.data[c][i]))]]]

pct_change(table) ==
    [columns |-> table.columns, index |-> table.index,
     data |-> [c \in DOMAIN table.data |->
                 [i \in 1..Len(table.index) |->
                     IF i = 1 THEN RNaN
                     ELSE RSub(Rat(table.data[c][i], table.data[c][i - 1]), RInt(1))]]]

\* the positions, among the first n rows, of the rows without any NaN
RECURSIVE CompleteRows(_, _)
CompleteRows(table, n) ==
    IF n = 0 THEN <<>>
    ELSE IF \A c \in DOMAIN table.data : ~IsNaN(table.data[c][n])
         THEN Append(CompleteRows(table, n - 1), n)
         ELSE CompleteRows(table, n - 1)

\* DataFrame.dropna(): the rows without any NaN
dropna(table) ==
    LET kept == CompleteRows(table, Len(table.index))
    IN  [columns |-> table.columns,
         index |-> [k \in 1..Len(kept) |-> table.index[kept[k]]],
         data |-> [c \in DOMAIN table.data |->
                     [k \in 1..Len(kept) |-> table.data[c][kept[k]]]]]

\* a weight of the map as a number
WeightValue(w) == Rat(w, ONE)

\* [weights.get(ticker, 0.0) for ticker in self.available_tickers]
MutAlignedWeightsMissingOne(w, tickers) ==
    [j \in 1..Len(tickers) |->
        IF tickers[j] \in DOMAIN w THEN WeightValue(w[tickers[j]]) ELSE RInt(1)]

aligned_weights(w, tickers) ==
    [j \in 1..Len(tickers) |->
        IF tickers[j] \in DOMAIN w THEN WeightValue(w[tickers[j]]) ELSE RInt(0)]

\* self.daily_returns.dot(aligned_weights): one value per row
RECURSIVE DotRow(_, _, _, _)
DotRow(table, aligned, i, j) ==
    IF j = 0 THEN RInt(0)
    ELSE RAdd(DotRow(table, aligned, i, j - 1),
              RMul(table.data[table.columns[j]][i], aligned[j]))

dot(table, aligned) ==
    [i \in 1..Len(table.index) |-> DotRow(table, aligned, i, Len(table.columns))]

\* (1 + series).cumprod()
RECURSIVE cumprod_1p(_)
cumprod_1p(series) ==
    IF series = <<>> THEN <<>>
    ELSE LET n == Len(series)
             before == cumprod_1p(SubSeq(series, 1, n - 1))
             factor == RAdd(RInt(1), series[n])
         IN  Append(before, IF n = 1 THEN factor ELSE RMul(before[n - 1], factor))

\* the DataFrame build_portfolio returns for an accepted weight map
portfolio_table(w, tickers, returns) ==
    LET portfolio_daily_returns == dot(returns, aligned_weights(w, tickers))
        growth == cumprod_1p(portfolio_daily_returns)
    IN  [index |-> returns.index,
         Daily_Return |-> portfolio_daily_returns,
         Cumulative_Return |-> [i \in 1..Len(growth) |-> RSub(growth[i], RInt(1))]]

\* price_data.empty: a DataFrame is empty when either axis has length 0
MutEmptyRowsOnly(table) == table.index = <<>>

empty(table) == table.index = <<>> \/ table.columns = <<>>

\* the price tables given to the constructor: no asset over 0..2 dates; one
\* asset over 0..4 dates with prices among 2, 4, 5; two assets over 0..3
\* dates with prices 4, 5
PriceTables ==
    LET Table(columns, k, data) ==
            [columns |-> columns, index |-> [i \in 1..k |-> i], data |-> data]
    IN  { Table(<<>>, k, <<>>) : k \in 0..2 }
        \cup UNION { { Table(<<"T1">>, k, d) : d \in [{"T1"} -> [1..k -> {2, 4, 5}]] }
                : k \in 0..4 }
        \cup UNION { { Table(<<"T1", "T2">>, k, d) :
                          d \in [{"T1", "T2"} -> [1..k -> {4, 5}]] }
                      : k \in 0..3 }

\* weight maps over up to two tickers with weights 0.4, 0.6, 1.0; "X" is not
\* a column of any table
BuilderWeightMaps ==
    UNION { [K -> {400000000, 600000000, ONE}] :
              K \in { S \in SUBSET TickerUniverse : Cardinality(S) <= 2 } }

InitBuilder ==
    /\ pc = "builder_new"
    /\ price_data \in PriceTables
    /\ builder_returns = <<>>
    /\ portfolio_df = <<>>
    /\ rejected = FALSE
    /\ IdlePanel
    /\ IdleLabel
    /\ IdleBuilder
    /\ IdleServe
    /\ IdleMain
    /\ IdleEngineer

\* PortfolioBuilder(price_data) with an empty table: ValueError
NewBuilderRaises ==
    /\ pc = "builder_new"
    /\ empty(price_data)
    /\ pc' = "builder_raised"
    /\ UNCHANGED <<panelVars, labelVars, builderVars, serveVars, moreVars>>

\* PortfolioBuilder(price_data): the return table and the ticker list
NewBuilder ==
    /\ pc = "builder_new"
    /\ ~empty(price_data)
    /\ builder_returns' = dropna(pct_change(price_data))
    /\ available_tickers' = price_data.columns
    /\ n_returns' = Len(price_data.index) - 1
    /\ pc' = "builder_ready"
    /\ UNCHANGED <<price_data, portfolio_df, rejected, weights, result,
                   panelVars, labelVars, serveVars, mainVars, engineerVars>>

MutBuildPortfolioTableForgets ==
    /\ pc = "builder_ready"
    /\ \E w \in BuilderWeightMaps :
          LET r == build_portfolio(w, available_tickers, Len(builder_returns.index))
          IN  /\ weights' = w
              /\ result' = r
              /\ rejected' = (rejected \/ r.raised)
              /\ portfolio_df' = IF r.raised THEN <<>>
                                 ELSE portfolio_table(w, available_tickers, builder_returns)
              /\ available_tickers' = IF r.raised THEN <<>> ELSE available_tickers
    /\ UNCHANGED <<pc, price_data, builder_returns, n_returns,
                   panelVars, labelVars, serveVars, mainVars, engineerVars>>

\* builder.build_portfolio(weights), any number of times
BuildPortfolioTable ==
    /\ pc = "builder_ready"
    /\ \E w \in BuilderWeightMaps :
          LET r == build_portfolio(w, available_tickers, Len(builder_returns.index))
          IN  /\ weights' = w
              /\ result' = r
              /\ rejected' = (rejected \/ r.raised)
              /\ portfolio_df' = IF r.raised THEN <<>>
                                 ELSE portfolio_table(w, available_tickers, builder_returns)
    /\ UNCHANGED <<pc, price_data, builder_returns, available_tickers, n_returns,
                   panelVars, labelVars, serveVars, mainVars, engineerVars>>

NextBuilder ==
    \/ NewBuilderRaises
    \/ NewBuilder
    \/ BuildPortfolioTable

SpecBuilder == InitBuilder /\ [][NextBuilder]_vars

\* the columns of the price table, as a set
Assets == { price_data.columns[j] : j \in 1..Len(price_data.columns) }

\* the weight an asset of the table carries under a weight map
WeightOfAsset(w, c) == IF c \in DOMAIN w THEN WeightValue(w[c]) ELSE RInt(0)

\* the sum over the assets of S of weight times return on row i
RECURSIVE WeightedReturn(_, _, _)
WeightedReturn(S, w, i) ==
    IF S = {} THEN RInt(0)
    ELSE LET c == CHOOSE x \in S : TRUE
         IN  RAdd(RMul(WeightOfAsset(w, c), builder_returns.data[c][i]),
                  WeightedReturn(S \ {c}, w, i))

\* C16: a price table with k >= 2 dates yields a return table with exactly
\* k-1 rows, on the dates after the first, and the return r of each asset on
\* date t satisfies (1 + r) * p_(t-1) = p_t.
C16_ReturnTable ==
    (pc = "builder_ready" /\ Len(price_data.index) >= 2) =>
        LET k == Len(price_data.index)
        IN  /\ Len(builder_returns.index) = k - 1
            /\ \A i \in 1..(k - 1) :
                  /\ builder_returns.index[i] = price_data.index[i + 1]
                  /\ builder_returns.index[i] # price_data.index[1]
                  /\ \A c \in Assets :
                        LET r == builder_returns.data[c][i]
                        IN  /\ ~IsNaN(r)
                            /\ (r.num + r.den) * price_data.data[c][i]
                                  = price_data.data[c][i + 1] * r.den

\* a table of 4 dates whose first asset falls from 5 to 4 and rises back
C16_Witness ==
    /\ pc = "builder_ready"
    /\ Len(price_data.index) = 4
    /\ builder_returns.data["T1"][1] = Rat(0 - 1, 5)
    /\ builder_returns.data["T1"][2] = Rat(1, 4)

\* C15: for an accepted weight map the table returned has the dates of the
\* return table, its Daily_Return is the sum over all assets of the table of
\* weight times return (weight 0 for an asset the map does not name), and
\* 1 + Cumulative_Return is the running product of 1 + Daily_Return.
C15_Aggregation ==
    (pc = "builder_ready" /\ result.called /\ ~result.raised) =>
        /\ portfolio_df.index = builder_returns.index
        /\ Len(portfolio_df.Daily_Return) = Len(builder_returns.index)
        /\ Len(portfolio_df.Cumulative_Return) = Len(builder_returns.index)
        /\ \A i \in 1..Len(builder_returns.index) :
              /\ portfolio_df.Daily_Return[i] = WeightedReturn(Assets, weights, i)
              /\ RAdd(RInt(1), portfolio_df.Cumulative_Return[i])
                   = RMul(IF i = 1 THEN RInt(1)
                          ELSE RAdd(RInt(1), portfolio_df.Cumulative_Return[i - 1]),
                          RAdd(RInt(1), portfolio_df.Daily_Return[i]))

\* a map naming one of two assets is accepted over two return dates
C15_Witness ==
    /\ pc = "builder_ready"
    /\ result.called /\ ~result.raised
    /\ Len(price_data.columns) = 2
    /\ DOMAIN weights = {"T2"}
    /\ Len(portfolio_df.index) = 2
    /\ portfolio_df.Daily_Return[1] # RInt(0)
    /\ builder_returns.data["T1"][1] # builder_returns.data["T2"][1]

\* C13: a rejected call returns no table and leaves the price table, the
\* return table and the ticker list as the constructor made them; every
\* call, whatever calls came before it, is rejected or accepted on its map
\* alone and, when accepted, returns the table of that map.
C13_RejectionLeavesBuilder ==
    /\ [](pc = "builder_ready" =>
            /\ builder_returns = dropna(pct_change(price_data))
            /\ available_tickers = price_data.columns
            /\ result.called =>
                  /\ result.raised = (_validate_weights(weights, price_data.columns) # "ok")
                  /\ result.raised => portfolio_df = <<>>
                  /\ ~result.raised =>
                        portfolio_df = portfolio_table(weights, price_data.columns,
                                                       dropna(pct_change(price_data))))
    /\ [][pc = "builder_ready" =>
            /\ price_data' = price_data
            /\ builder_returns' = builder_returns
            /\ available_tickers' = available_tickers]_vars

\* an earlier call was rejected and the latest call was accepted
C13_Witness ==
    /\ pc = "builder_ready"
    /\ rejected
    /\ result.called /\ ~result.raised
    /\ Len(portfolio_df.index) >= 2

----------------------------------------------------------------------------
(* RiskFeatureEngineer: the metrics of one return series                   *)
(*                                                                         *)
(* The returns of a series are integers in 1/1000; a metric is a fraction. *)

RETURN_UNIT == 1000

\* the float value of a return
ReturnValue(x) == Rat(x, RETURN_UNIT)

\* the series sorted into non-decreasing order, as np.percentile sorts it
RECURSIVE np_sort(_)
np_sort(series) ==
    IF series = <<>> THEN <<>>
    ELSE LET x == series[Len(series)]
             front == np_sort(SubSeq(series, 1, Len(series) - 1))
             k == Cardinality({ i \in 1..Len(front) : front[i] <= x })
         IN  SubSeq(front, 1, k) \o <<x>> \o SubSeq(front, k + 1, Len(front))

\* np.percentile(series, q): linear interpolation at position q/100 * (n-1)
MutPercentileLower(series, q) ==
    LET sorted == np_sort(series)
        lo == (q * (Len(series) - 1)) \div 100
    IN  ReturnValue(sorted[lo + 1])

percentile(series, q) ==
    LET sorted == np_sort(series)
        position == q * (Len(series) - 1)
        lo == position \div 100
        rem == position % 100
    IN  IF rem = 0 THEN ReturnValue(sorted[lo + 1])
        ELSE Rat(100 * sorted[lo + 1] + rem * (sorted[lo + 2] - sorted[lo + 1]),
                 100 * RETURN_UNIT)

\* compute_historical_var_95
compute_historical_var_95(series) == RAbs(percentile(series, 5))

\* Series.cummax()
RECURSIVE cummax(_)
cummax(series) ==
    IF series = <<>> THEN <<>>
    ELSE LET n == Len(series)
             before == cummax(SubSeq(series, 1, n - 1))
         IN  Append(before, IF n > 1 /\ RLess(series[n], before[n - 1])
                            THEN before[n - 1] ELSE series[n])

\* Series.min(): the least value that is not NaN, NaN when there is none
RECURSIVE series_min(_)
series_min(series) ==
    IF series = <<>> THEN RNaN
    ELSE LET x == series[Len(series)]
             m == series_min(SubSeq(series, 1, Len(series) - 1))
         IN  IF IsNaN(x) THEN m
             ELSE IF IsNaN(m) \/ RLess(x, m) THEN x ELSE m

\* compute_max_drawdown
MutMaxDrawdownFromStart(series) ==
    LET cumulative_returns == cumprod_1p([i \in 1..Len(series) |-> ReturnValue(series[i])])
        rolling_max == cummax(<<RInt(1)>> \o cumulative_returns)
        drawdown == [i \in 1..Len(series) |->
                        RDiv(RSub(cumulative_returns[i], rolling_max[i + 1]),
                             rolling_max[i + 1])]
    IN  RAbs(series_min(drawdown))

compute_max_drawdown(series) ==
    LET cumulative_returns == cumprod_1p([i \in 1..Len(series) |-> ReturnValue(series[i])])
        rolling_max == cummax(cumulative_returns)
        drawdown == [i \in 1..Len(series) |->
                        RDiv(RSub(cumulative_returns[i], rolling_max[i]), rolling_max[i])]
    IN  RAbs(series_min(drawdown))

\* the integer square root: the r of lo..(hi - 1) with r * r <= n < (r+1) * (r+1)
RECURSIVE IsqrtIn(_, _, _)
IsqrtIn(n, lo, hi) ==
    IF hi - lo <= 1 THEN lo
    ELSE LET mid == (lo + hi) \div 2
         IN  IF mid * mid <= n THEN IsqrtIn(n, mid, hi) ELSE IsqrtIn(n, lo, mid)

RECURSIVE SumSeq(_)
SumSeq(series) == IF series = <<>> THEN 0 ELSE series[1] + SumSeq(Tail(series))

\* Series.std(): the sample standard deviation (ddof = 1), NaN for fewer
\* than two values; rounded down to a multiple of 1e-5
std(series) ==
    LET n == Len(series)
        sum == SumSeq(series)
        squares == SumSeq([i \in 1..n |-> series[i] * series[i]])
    IN  IF n < 2 THEN RNaN
        ELSE Rat(IsqrtIn(((n * squares - sum * sum) * 10000) \div (n * (n - 1)), 0, 46341),
                 100 * RETURN_UNIT)

\* np.isclose(vol, 0.0); a NaN is close to nothing
close_to_zero(vol) == ~IsNaN(vol) /\ isclose(vol.num * (ONE \div vol.den), 0)

\* the loop over self.weights.items()
RECURSIVE MutWeightedAvgVolMissingNaN(_, _, _)
MutWeightedAvgVolMissingNaN(w, individual_vols, keys) ==
    IF keys = {} THEN RInt(0)
    ELSE LET ticker == CHOOSE t \in keys : TRUE
             rest == MutWeightedAvgVolMissingNaN(w, individual_vols, keys \ {ticker})
         IN  IF ticker \in DOMAIN individual_vols
             THEN RAdd(rest, RMul(WeightValue(w[ticker]), individual_vols[ticker]))
             ELSE RNaN

RECURSIVE weighted_avg_vol(_, _, _)
weighted_avg_vol(w, individual_vols, keys) ==
    IF keys = {} THEN RInt(0)
    ELSE LET ticker == CHOOSE t \in keys : TRUE
             rest == weighted_avg_vol(w, individual_vols, keys \ {ticker})
         IN  IF ticker \in DOMAIN individual_vols
             THEN RAdd(rest, RMul(WeightValue(w[ticker]), individual_vols[ticker]))
             ELSE rest

\* compute_diversification_ratio
MutDiversificationRatioDivides(returns, components, w) ==
    IF ~components.given \/ ~w.given THEN RNaN
    ELSE LET individual_vols == [c \in DOMAIN components.data |-> std(components.data[c])]
         IN  RDiv(weighted_avg_vol(w.map, individual_vols, DOMAIN w.map), std(returns))

compute_diversification_ratio(returns, components, w) ==
    IF ~components.given \/ ~w.given THEN RNaN
    ELSE LET individual_vols == [c \in DOMAIN components.data |-> std(components.data[c])]
             portfolio_vol == std(returns)
         IN  IF close_to_zero(portfolio_vol) THEN RInt(1)
             ELSE RDiv(weighted_avg_vol(w.map, individual_vols, DOMAIN w.map), portfolio_vol)

\* compute_annualized_volatility: std * sqrt(252), the root rounded down to
\* a multiple of 1/1000
compute_annualized_volatility(series) ==
    RMul(std(series), Rat(IsqrtIn(TRADING_DAYS_PER_YEAR * 1000000, 0, 46341), 1000))

\* compute_all_features: the dict returned
MutAllFeaturesAlwaysRatio(returns, components, w) ==
    [key \in {"Annualized_Volatility", "Historical_VaR_95", "Maximum_Drawdown",
              "Diversification_Ratio"} |->
        CASE key = "Annualized_Volatility" -> compute_annualized_volatility(returns)
          [] key = "Historical_VaR_95" -> compute_historical_var_95(returns)
          [] key = "Maximum_Drawdown" -> compute_max_drawdown(returns)
          [] OTHER -> compute_diversification_ratio(returns, components, w)]

compute_all_features(returns, components, w) ==
    LET features == {"Annualized_Volatility", "Historical_VaR_95", "Maximum_Drawdown"}
        keys == IF components.given /\ w.given
                THEN features \cup {"Diversification_Ratio"} ELSE features
    IN  [key \in keys |->
            CASE key = "Annualized_Volatility" -> compute_annualized_volatility(returns)
              [] key = "Historical_VaR_95" -> compute_historical_var_95(returns)
              [] key = "Maximum_Drawdown" -> compute_max_drawdown(returns)
              [] OTHER -> compute_diversification_ratio(returns, components, w)]

\* the series given to compute_historical_var_95: up to 4 returns among five
\* values, the series of the unit test, and series of 21, 22 and 41 returns
VarSeries ==
    UNION { [1..n -> {-20, -10, 5, 10, 30}] : n \in 1..4 }
    \cup { <<10, -20, 30, -10, 5>> }
    \cup { [i \in 1..n |-> ((i * 7) % 11) * 5 - 25] : n \in {21, 22, 41} }

\* the series given to compute_max_drawdown: up to 4 returns between -50% and 25%
DrawdownSeries == UNION { [1..n -> {-500, -200, -100, 0, 100, 250}] : n \in 1..4 }

\* the inputs of compute_diversification_ratio
DivPortfolioSeries == UNION { [1..n -> {0, 100}] : n \in 1..3 }

ComponentColumns ==
    { <<100, -100, 100>>, <<-100, 100, -100>>, <<50, 20, -10>>, <<20, 10, -20>>,
      <<10>>, <<>> }

ComponentFrames ==
    { [given |-> FALSE, data |-> <<>>] }
    \cup { [given |-> TRUE, data |-> d] :
             d \in { f \in UNION { [K -> ComponentColumns] : K \in {{"T1"}, {"T1", "T2"}} } :
                        \A a, b \in DOMAIN f : Len(f[a]) = Len(f[b]) } }

EngineerWeights ==
    { [given |-> FALSE, map |-> <<>>] }
    \cup { [given |-> TRUE, map |-> m] :
             m \in UNION { [K -> {300000000, 500000000, 700000000}] :
                             K \in { S \in SUBSET TickerUniverse : Cardinality(S) <= 2 } } }

InitEngineer ==
    /\ \/ /\ pc = "call_var95"
          /\ portfolio_returns \in VarSeries
          /\ component_returns = [given |-> FALSE, data |-> <<>>]
          /\ weights = [given |-> FALSE, map |-> <<>>]
       \/ /\ pc = "call_max_drawdown"
          /\ portfolio_returns \in DrawdownSeries
          /\ component_returns = [given |-> FALSE, data |-> <<>>]
          /\ weights = [given |-> FALSE, map |-> <<>>]
       \/ /\ pc = "call_diversification_ratio"
          /\ portfolio_returns \in DivPortfolioSeries
          /\ component_returns \in ComponentFrames
          /\ weights \in EngineerWeights
       \/ /\ pc = "engineer_new"
          /\ portfolio_returns \in UNION { [1..n -> {-200, 0, 100}] : n \in 0..3 }
          /\ component_returns \in
                { [given |-> FALSE, data |-> <<>>],
                  [given |-> TRUE,
                   data |-> [t \in {"T1", "T2"} |->
                               IF t = "T1" THEN <<100, -100, 100>> ELSE <<50, 20, -10>>]] }
          /\ weights \in { [given |-> FALSE, map |-> <<>>],
                           [given |-> TRUE, map |-> [t \in {"T1", "T2"} |-> 500000000]] }
    /\ feature = <<>>
    /\ available_tickers = <<>>
    /\ n_returns = 0
    /\ result = NoResult
    /\ IdlePanel
    /\ IdleLabel
    /\ IdleServe
    /\ IdleMain
    /\ IdleTables

Returns(method, value) ==
    /\ feature' = [method |-> method, value |-> value]
    /\ pc' = "returned"
    /\ UNCHANGED <<portfolio_returns, component_returns, panelVars, labelVars,
                   builderVars, serveVars, mainVars, tableVars>>

CallVar95 ==
    /\ pc = "call_var95"
    /\ Returns("compute_historical_var_95", compute_historical_var_95(portfolio_returns))

CallMaxDrawdown ==
    /\ pc = "call_max_drawdown"
    /\ Returns("compute_max_drawdown", compute_max_drawdown(portfolio_returns))

CallDiversificationRatio ==
    /\ pc = "call_diversification_ratio"
    /\ Returns("compute_diversification_ratio",
               compute_diversification_ratio(portfolio_returns, component_returns, weights))

\* RiskFeatureEngineer(portfolio_returns, ...) with an empty series: ValueError
NewEngineerRaises ==
    /\ pc = "engineer_new"
    /\ Len(portfolio_returns) = 0
    /\ pc' = "engineer_raised"
    /\ UNCHANGED <<panelVars, labelVars, builderVars, serveVars, moreVars>>

\* RiskFeatureEngineer(portfolio_returns, ...): the three attributes are kept
NewEngineer ==
    /\ pc = "engineer_new"
    /\ Len(portfolio_returns) # 0
    /\ pc' = "call_all_features"
    /\ UNCHANGED <<panelVars, labelVars, builderVars, serveVars, moreVars>>

MutCallAllFeaturesSortsReturns ==
    /\ pc \in {"call_all_features", "returned_all"}
    /\ pc = "returned_all" => feature.calls < MaxCalls
    /\ feature' = [method |-> "compute_all_features",
                   value |-> compute_all_features(portfolio_returns, component_returns, weights),
                   calls |-> IF pc = "returned_all" THEN feature.calls + 1 ELSE 1]
    /\ portfolio_returns' = np_sort(portfolio_returns)
    /\ pc' = "returned_all"
    /\ UNCHANGED <<component_returns, panelVars, labelVars,
                   builderVars, serveVars, mainVars, tableVars>>

\* engineer.compute_all_features(), any number of times up to MaxCalls
CallAllFeatures ==
    /\ pc \in {"call_all_features", "returned_all"}
    /\ pc = "returned_all" => feature.calls < MaxCalls
    /\ feature' = [method |-> "compute_all_features",
                   value |-> compute_all_features(portfolio_returns, component_returns, weights),
                   calls |-> IF pc = "returned_all" THEN feature.calls + 1 ELSE 1]
    /\ pc' = "returned_all"
    /\ UNCHANGED <<portfolio_returns, component_returns, panelVars, labelVars,
                   builderVars, serveVars, mainVars, tableVars>>

NextEngineer ==
    \/ CallVar95
    \/ CallMaxDrawdown
    \/ CallDiversificationRatio
    \/ NewEngineerRaises
    \/ NewEngineer
    \/ CallAllFeatures

SpecEngineer == InitEngineer /\ [][NextEngineer]_vars

\* the method that has returned
MethodReturned(method) == pc = "returned" /\ feature.method = method

\* the product of (1 + return) over the dates s+1..t of a series
RECURSIVE SegmentGrowth(_, _, _)
SegmentGrowth(series, s, t) ==
    IF t <= s THEN RInt(1)
    ELSE RMul(SegmentGrowth(series, s, t - 1), RAdd(RInt(1), ReturnValue(series[t])))

\* C17: compute_max_drawdown returns the largest loss 1 - C_t / C_s from a
\* date s of the series to a date t >= s, C being the cumulative product of
\* (1 + return) over the series alone (the peak is taken over the dates of the
\* series, the first one included, and not over a value before it); it is
\* never negative, and it is 0.20 for the returns 0.10, -0.20, 0.10.
C17_MaxDrawdown ==
    MethodReturned("compute_max_drawdown") =>
        LET v == feature.value
            n == Len(portfolio_returns)
            Loss(s, t) == RSub(RInt(1), SegmentGrowth(portfolio_returns, s, t))
        IN  /\ ~IsNaN(v)
            /\ v.num >= 0
            /\ \A t \in 1..n : \A s \in 1..t : ~RLess(v, Loss(s, t))
            /\ \E t \in 1..n : \E s \in 1..t : v = Loss(s, t)
            /\ portfolio_returns = <<100, -200, 100>> => v = Rat(1, 5)

\* the series of the unit test has returned 0.20
C17_Witness ==
    /\ MethodReturned("compute_max_drawdown")
    /\ portfolio_returns = <<100, -200, 100>>
    /\ feature.value = Rat(20, 100)

\* the k-th smallest value of a series
OrderStatistic(series, k) ==
    CHOOSE x \in { series[i] : i \in 1..Len(series) } :
        /\ Cardinality({ i \in 1..Len(series) : series[i] < x }) < k
        /\ k <= Cardinality({ i \in 1..Len(series) : series[i] <= x })

\* C18: compute_historical_var_95 returns the absolute value of the value at
\* position 0.05 * (n - 1) of the sorted series, interpolated linearly between
\* the two neighbouring order statistics; it is never negative, and it is
\* 0.018 for the returns 0.01, -0.02, 0.03, -0.01, 0.005.
C18_Var95 ==
    MethodReturned("compute_historical_var_95") =>
        LET n == Len(portfolio_returns)
            lo == (5 * (n - 1)) \div 100
            rem == (5 * (n - 1)) % 100
            low == OrderStatistic(portfolio_returns, lo + 1)
            high == IF rem = 0 THEN low ELSE OrderStatistic(portfolio_returns, lo + 2)
        IN  /\ feature.value = RAbs(Rat(100 * low + rem * (high - low), 100 * RETURN_UNIT))
            /\ feature.value.num >= 0
            /\ feature.value.den > 0
            /\ portfolio_returns = <<10, -20, 30, -10, 5>> => feature.value = Rat(18, 1000)

\* the series of the unit test has returned 0.018
C18_Witness ==
    /\ MethodReturned("compute_historical_var_95")
    /\ portfolio_returns = <<10, -20, 30, -10, 5>>
    /\ feature.value = Rat(18, 1000)

\* the returns of the series are all the same, and there are two or more
ZeroDeviation(series) ==
    /\ Len(series) >= 2
    /\ \A i, j \in 1..Len(series) : series[i] = series[j]

\* C19: with a component table and a weight map given, a portfolio series of
\* zero standard deviation makes compute_diversification_ratio return exactly
\* 1.0, without dividing by that zero.
C19_ZeroRiskIsOne ==
    (/\ MethodReturned("compute_diversification_ratio")
     /\ component_returns.given /\ weights.given
     /\ ZeroDeviation(portfolio_returns))
    => feature.value = RInt(1)

\* two components that cancel under equal weights, as in the unit test
C19_Witness ==
    /\ MethodReturned("compute_diversification_ratio")
    /\ portfolio_returns = <<0, 0, 0>>
    /\ component_returns.given /\ weights.given
    /\ DOMAIN component_returns.data = {"T1", "T2"}
    /\ component_returns.data["T1"] = <<100, -100, 100>>
    /\ component_returns.data["T2"] = <<-100, 100, -100>>
    /\ weights.map = [t \in {"T1", "T2"} |-> 500000000]
    /\ feature.value = RInt(1)

\* the sum of weight times std over a set of assets
RECURSIVE SumOfWeightedStd(_)
SumOfWeightedStd(S) ==
    IF S = {} THEN RInt(0)
    ELSE LET c == CHOOSE x \in S : TRUE
         IN  RAdd(RMul(WeightValue(weights.map[c]), std(component_returns.data[c])),
                  SumOfWeightedStd(S \ {c}))

\* C20: when the portfolio series has a non-zero standard deviation the value
\* returned is the sum of weight times component std over the assets that are
\* keys of the weight map and columns of the component table, and over no
\* other, divided by the portfolio std: a key without a column and a column
\* without a key change nothing.
C20_CommonAssetsOnly ==
    (/\ MethodReturned("compute_diversification_ratio")
     /\ component_returns.given /\ weights.given
     /\ Len(portfolio_returns) >= 2
     /\ ~ZeroDeviation(portfolio_returns))
    => feature.value =
         RDiv(SumOfWeightedStd(DOMAIN weights.map \cap DOMAIN component_returns.data),
              std(portfolio_returns))

\* a key without a column, a column without a key, and a ratio that is a number
C20_Witness ==
    /\ MethodReturned("compute_diversification_ratio")
    /\ component_returns.given /\ weights.given
    /\ DOMAIN weights.map = {"T1", "X"}
    /\ DOMAIN component_returns.data = {"T1", "T2"}
    /\ ~IsNaN(feature.value)
    /\ feature.value.num > 0

\* C21: compute_all_features returns a mapping whose keys are the three
\* metrics and Diversification_Ratio when a component table and a weight map
\* were both given, and the three metrics alone when either is absent.
C21_KeySet ==
    pc = "returned_all" =>
        DOMAIN feature.value =
            IF component_returns.given /\ weights.given
            THEN {"Annualized_Volatility", "Historical_VaR_95", "Maximum_Drawdown",
                  "Diversification_Ratio"}
            ELSE {"Annualized_Volatility", "Historical_VaR_95", "Maximum_Drawdown"}

\* a call with a component table and without a weight map has returned
C21_Witness ==
    /\ pc = "returned_all"
    /\ component_returns.given
    /\ ~weights.given
    /\ "Diversification_Ratio" \notin DOMAIN feature.value
    /\ Len(portfolio_returns) = 3

\* C22: for every series of at least one return, all above -1, the
\* Annualized_Volatility, Historical_VaR_95 and Maximum_Drawdown returned by
\* compute_all_features are finite: none of them is NaN.
C22_MetricsFinite ==
    (pc = "returned_all" /\ \A i \in DOMAIN portfolio_returns :
                                portfolio_returns[i] > -RETURN_UNIT) =>
        /\ ~IsNaN(feature.value["Annualized_Volatility"])
        /\ ~IsNaN(feature.value["Historical_VaR_95"])
        /\ ~IsNaN(feature.value["Maximum_Drawdown"])

\* the number of dates of a portfolio table before date d whose Daily_Return
\* is missing, and the number whose Daily_Return is a number
MissingBefore(p, d) ==
    LET from == p.first + p.nanAt
        upto == IF d < from + p.nanCnt THEN d ELSE from + p.nanCnt
    IN  IF upto > from THEN upto - from ELSE 0

ReturnsBefore(p, d) == (d - p.first) - MissingBefore(p, d)

HasReturn(p, d) ==
    /\ d >= p.first
    /\ d < p.first + p.len
    /\ MissingBefore(p, d + 1) = MissingBefore(p, d)

\* C25: every window of a portfolio is a run of exactly 126 consecutive
\* non-missing returns: the j-th row starts after 21 * (j - 1) non-missing
\* returns, Window_Start and Window_End are the dates of the first and of
\* the last return of the run, the run ends at or before the last return
\* of the portfolio, and the windows are maximal: fewer than 21 returns
\* follow the end of the last window.
C25_WindowsAreRuns ==
    Returned =>
        \A i \in 1..Len(portfolios) :
            LET p == portfolios[i]
                table == RowsOf(panel_df, p.id)
                last == p.first + p.len
            IN  /\ \A j \in 1..Len(table) :
                      LET r == table[j]
                      IN  /\ HasReturn(p, r.Window_Start)
                          /\ HasReturn(p, r.Window_End)
                          /\ ReturnsBefore(p, r.Window_Start) = 21 * (j - 1)
                          /\ ReturnsBefore(p, r.Window_End + 1)
                                - ReturnsBefore(p, r.Window_Start) = 126
                          /\ ReturnsBefore(p, r.Window_End + 1) <= ReturnsBefore(p, last)
                /\ Len(table) > 0 =>
                      ReturnsBefore(p, last)
                        - ReturnsBefore(p, table[Len(table)].Window_End + 1) < 21

\* a window that runs over two missing dates: 128 dates for 126 returns
C25_Witness ==
    /\ Returned
    /\ Len(portfolios) = 1
    /\ portfolios[1].nanCnt = 2
    /\ Len(panel_df) >= 3
    /\ panel_df[1].Window_End - panel_df[1].Window_Start = 125
    /\ panel_df[2].Window_End - panel_df[2].Window_Start = 127

\* C24: compute_all_features is pure: a call leaves the portfolio returns,
\* the component returns and the weights of the engineer as they were, and
\* a repeated call on the same engineer returns the mapping the call before
\* it returned.
C24_AllFeaturesPure ==
    [][(pc = "call_all_features" \/ pc = "returned_all") =>
          (/\ portfolio_returns' = portfolio_returns
           /\ component_returns' = component_returns
           /\ weights' = weights
           /\ pc' = "returned_all"
           /\ DOMAIN feature'.value =
                 DOMAIN compute_all_features(portfolio_returns, component_returns, weights)
           /\ (pc = "returned_all" =>
                 (feature'.value = feature.value /\ feature'.calls = feature.calls + 1)))
      ]_vars

\* a second call on an unsorted series with a component table and weights
C24_Witness ==
    /\ pc = "returned_all"
    /\ feature.calls >= 2
    /\ portfolio_returns = <<100, -200, 0>>
    /\ component_returns.given
    /\ weights.given
    /\ ~IsNaN(feature.value["Diversification_Ratio"])

\* C26: compute_max_drawdown measures declines from peaks inside the series
\* only, the first peak being the value after the first return: a series of
\* one return gives 0, a series whose returns after the first are all
\* non-negative gives 0 however large a loss the first return is, and no
\* other first return would change the value returned.
C26_PeaksInsideSlice ==
    MethodReturned("compute_max_drawdown") =>
        LET v == feature.value
            n == Len(portfolio_returns)
        IN  /\ n = 1 => v = RInt(0)
            /\ (\A t \in 2..n : portfolio_returns[t] >= 0) => v = RInt(0)
            /\ ~RLess(RInt(0), v) \/ \E t \in 2..n : portfolio_returns[t] < 0
            /\ \A x \in {-500, 0, 250} :
                  compute_max_drawdown([portfolio_returns EXCEPT ![1] = x]) = v

\* a loss of one half on the first date, and gains after it, returned 0
C26_Witness ==
    /\ MethodReturned("compute_max_drawdown")
    /\ portfolio_returns = <<-500, 100, 0, 250>>
    /\ feature.value = RInt(0)

----------------------------------------------------------------------------
(* Construction of a PortfolioBuilder or of a RiskFeatureEngineer, and the *)
(* calls made on the object when there is one                              *)

InitConstruct ==
    \/ InitBuilder /\ Len(price_data.index) <= 2
    \/ InitEngineer /\ pc = "engineer_new"

NextConstruct ==
    \/ NewBuilderRaises
    \/ NewBuilder
    \/ BuildPortfolioTable
    \/ NewEngineerRaises
    \/ NewEngineer
    \/ CallAllFeatures

SpecConstruct == InitConstruct /\ [][NextConstruct]_vars

\* C23: an empty input is rejected at construction and nothing is computed
\* from it: a return series of zero length never yields an engineer, a price
\* table with zero rows or zero columns never yields a builder, the rejected
\* construction is the last step, and no return table, ticker list,
\* portfolio table or feature mapping exists after it.
C23_EmptyInputRejected ==
    /\ [](pc \in {"builder_ready", "builder_raised", "builder_new"} =>
             LET zero == Len(price_data.index) = 0 \/ Len(price_data.columns) = 0
             IN  /\ zero => pc # "builder_ready"
                 /\ pc = "builder_raised" =>
                       /\ zero
                       /\ builder_returns = <<>>
                       /\ available_tickers = <<>>
                       /\ portfolio_df = <<>>
                       /\ ~result.called)
    /\ [](pc \in {"engineer_new", "engineer_raised", "call_all_features",
                  "returned_all"} =>
             /\ Len(portfolio_returns) = 0 =>
                   pc \notin {"call_all_features", "returned_all"}
             /\ pc = "engineer_raised" =>
                   /\ Len(portfolio_returns) = 0
                   /\ feature = <<>>)
    /\ [][/\ pc \notin {"builder_raised", "engineer_raised"}
          /\ (pc = "builder_new" /\ (Len(price_data.index) = 0
                                      \/ Len(price_data.columns) = 0)) =>
                pc' = "builder_raised"
          /\ (pc = "engineer_new" /\ Len(portfolio_returns) = 0) =>
                pc' = "engineer_raised"]_vars

\* the constructor has rejected a table with rows and no column
C23_Witness ==
    /\ pc = "builder_raised"
    /\ Len(price_data.index) = 2
    /\ Len(price_data.columns) = 0

====
